---- MODULE Spec2Model ----
(***************************************************************************)
(* A model of succ (lnmds/succ): the crawler of src/succ/main.py and the   *)
(* tag resolver of src/succ/post.py.                                       *)
(*                                                                         *)
(* The program is one asyncio event loop.  A coroutine runs without        *)
(* interruption from one await to the next, so every action below is the   *)
(* code between two awaits of one coroutine (or, for the synchronous       *)
(* command handlers, the code between two runs of the event loop).         *)
(***************************************************************************)
EXTENDS Integers, Sequences, FiniteSets, TLC

(***************************************************************************)
(* Bounds of the model.                                                    *)
(***************************************************************************)
MaxPosts == 2       \* posts of the catalog, for fetch latest and fetch pages
MaxUntilPosts == 5  \* posts of the catalog, for fetch until
MaxLoopPosts == 2   \* posts of the catalog, for loop
MaxLoopPages == 5   \* pages of the catalog, for loop
PageLimit == 2      \* posts on one page (the request asks limit=200)
MaxResp == 2        \* records in one answer of the tag API
MaxPage == 3        \* c_fetch_until is not followed past this page
MaxCycles == 2      \* cycles of c_loop that are followed
MaxRetryPosts == 1  \* posts of the catalog, for fetch latest under fairness

(***************************************************************************)
(* Program constants.                                                      *)
(***************************************************************************)
SemaphoreValue_4 == 3 + 1
SemaphoreValue == 3         \* asyncio.Semaphore(3)
page_continue == 3          \* c_fetch_all: page_continue = 3

\* consts.py (TagType, NAMESPACES) is not part of the sources at hand.
GENERAL == 0
ARTIST == 1
Kinds == {GENERAL, ARTIST}
NAMESPACES == (ARTIST :> "creator:")

Labels == {"a", "b"}

\* A tag of a post, f'{namespace}{name}', kept as its two parts.
Tag(ns, name) == [ns |-> ns, name |-> name]
RawTag(name) == Tag("", name)

\* The md5 of the post with a given id, as the API sends it (a hex string),
\* and codecs.decode(hash, 'hex') of each of them.
Md5Of(id) ==
    CASE id = 1 -> "0a" [] id = 2 -> "1b" [] id = 3 -> "2c"
      [] id = 4 -> "3d" [] id = 5 -> "4e" [] id = 6 -> "5f" [] id = 7 -> "60"
      [] OTHER -> "ff"

HexDecode(hash) ==
    CASE hash = "0a" -> <<10>> [] hash = "1b" -> <<27>> [] hash = "2c" -> <<44>>
      [] hash = "3d" -> <<61>> [] hash = "4e" -> <<78>> [] hash = "5f" -> <<95>>
      [] hash = "60" -> <<96>> [] OTHER -> <<255>>

Min(x, y) == IF x < y THEN x ELSE y

RECURSIVE SeqsUpTo(_, _)
SeqsUpTo(S, n) ==
    IF n = 0 THEN {<<>>}
    ELSE LET shorter == SeqsUpTo(S, n - 1)
         IN  shorter \cup {Append(s, x) : s \in {t \in shorter : Len(t) = n - 1}, x \in S}

VARIABLES
    catalog,            \* the remote catalog: the posts, newest first
    command,            \* the command the client was given
    args,               \* and its integer arguments
    pc,                 \* position of the command handler
    tasks,              \* the fetch_page coroutines of the running gather, by page
    db_tags,            \* table tags (tag primary key, type) as the connection sees it
    db_committed,       \* the rows of table tags that are committed
    tagfetch_semaphore, \* value of self.tagfetch_semaphore
    page,               \* c_fetch_until: page
    final_posts,        \* c_fetch_until: final_posts
    i,                  \* c_fetch_all: i
    job,                \* process_hta: posts, and the place of its loop
    hta,                \* the hydrus tag archive
    cycles              \* c_loop: cycles of c_fetch_all started

vars == <<catalog, command, args, pc, tasks, db_tags, db_committed,
          tagfetch_semaphore, page, final_posts, i, job, hta, cycles>>

ctlVars == <<page, final_posts, i, cycles>>
htaVars == <<job, hta>>
envVars == <<catalog, command, args>>

(***************************************************************************)
(* The remote API.                                                         *)
(***************************************************************************)
\* GET /post/index.json?page=..&limit=..: the page of the catalog, and an
\* empty page past its end.
RemotePage(p) == IF p + 1 <= Len(catalog) THEN catalog[p + 1] ELSE <<>>

\* The entry of the post with a given id.
RawPost(id, tags) == [id |-> id, tags |-> tags, md5 |-> Md5Of(id)]

\* The catalog whose page q holds sizes[q] posts: the ids descend along the
\* pages down to 1, tagsOf[id] are the tags of a post.
RECURSIVE Sum(_)
Sum(sizes) == IF sizes = <<>> THEN 0 ELSE Head(sizes) + Sum(Tail(sizes))

Paged(sizes, tagsOf) ==
    [q \in 1..Len(sizes) |->
        [k \in 1..sizes[q] |->
            LET id == Sum(sizes) - (Sum(SubSeq(sizes, 1, q - 1)) + k) + 1
            IN  RawPost(id, tagsOf[id])]]

Catalogs(shapes, tagLists) ==
    UNION {{Paged(sizes, tagsOf) : tagsOf \in [1..Sum(sizes) -> tagLists]} : sizes \in shapes}

\* n posts on full pages of one size, for every n and size up to the bounds.
Dense(maxPosts, maxSize) ==
    {[q \in 1..((n + size - 1) \div size) |-> Min(size, n - (q - 1) * size)] :
        n \in 0..maxPosts, size \in 1..maxSize}

\* At most one post on each of a number of pages, some of them empty.
Sparse(pages, maxPosts) == {sizes \in [1..pages -> 0..1] : Sum(sizes) <= maxPosts}

\* GET /tag/index.json?name=..&limit=0: any list of tag records; the search of
\* the remote is fuzzy and need not hold the tag asked for.
TagRecords == [name : Labels, tag_type : Kinds]
Responses == SeqsUpTo(TagRecords, MaxResp)

(***************************************************************************)
(* post.py                                                                 *)
(***************************************************************************)
_wrap(name, ttype) == [name |-> name, tag_type |-> ttype]

\* Post.__init__: data['tags'].split(' ') is kept here as the list it yields.
Post(data) ==
    [id |-> data.id,
     raw_tags |-> data.tags,
     tags |-> [k \in 1..Len(data.tags) |-> RawTag(data.tags[k])],
     hash |-> data.md5]

bhash(post) == HexDecode(post.hash)

tag_add_front(post, tag) == [post EXCEPT !.tags = <<tag>> \o @]
tag_add(post, tag) == [post EXCEPT !.tags = Append(@, tag)]

\* TagFetcher.__init__; a coroutine made by fetch() starts at the semaphore.
TagFetcher(tag) == [tag |-> tag, pc |-> "acquire", result |-> <<>>, how |-> "none"]

\* insert into tags (tag, type) values (?, ?): the primary key refuses a
\* second row of the same tag (sqlite3.IntegrityError) and the table is unchanged.
IntegrityError(table, name) == name \in DOMAIN table

InsertOrReplace(table, name, type) ==
    [x \in DOMAIN table \cup {name} |-> IF x = name THEN type ELSE table[x]]

Insert(table, name, type) ==
    IF IntegrityError(table, name) THEN table ELSE table @@ (name :> type)

\* The first loop of _fetch over the results: insert each, pass over IntegrityError.
RECURSIVE Learn(_, _)
Learn(table, results) ==
    IF results = <<>> THEN table
    ELSE Learn(Insert(table, Head(results).name, Head(results).tag_type), Tail(results))

\* The second loop of _fetch: the records whose name is the tag itself.
Matches(results, tag) == SelectSeq(results, LAMBDA r : r.name = tag)


(***************************************************************************)
(* main.py: fetch_page                                                     *)
(***************************************************************************)
\* One fetch_page coroutine, at its first request.
PageTask == [pc |-> "request", res |-> <<>>, n |-> 0, post |-> <<>>, bad |-> <<>>,
             tag_fetchers |-> <<>>, posts |-> <<>>]

NoTasks == [p \in {} |-> PageTask]

\* The body of the loop over res, up to asyncio.wait: the post, the four tags
\* the API does not give, and one TagFetcher for every entry of raw_tags.
NewPost(rawpost) ==
    LET post == Post(rawpost)
    IN  tag_add(tag_add(tag_add(tag_add(post,
            RawTag("hypnosis")),
            Tag("booru:", "hypnohub")),
            Tag("md5:", post.hash)),
            Tag("id:", ToString(post.id)))

Fetchers(post) == [k \in 1..Len(post.raw_tags) |-> TagFetcher(post.raw_tags[k])]

\* log.warning(f'sorry, {tagfetcher.tag!r} is bad'): the tags the merge loop
\* reports for a post, in the order of its fetchers.
NoResult(tagfetcher) == tagfetcher.result = <<>>
Bad(post, fetchers) ==
    [k \in 1..Len(SelectSeq(fetchers, NoResult)) |->
        [id |-> post.id, tag |-> SelectSeq(fetchers, NoResult)[k].tag]]

\* The loop over tag_fetchers after the wait: a fetcher without a result adds
\* nothing, one whose type has a namespace adds f'{namespace}{tag_name}'.
RECURSIVE Merge_abort(_, _)
Merge_abort(post, fetchers) ==
    IF fetchers = <<>> THEN post
    ELSE LET tagfetcher == Head(fetchers)
         IN  IF tagfetcher.result = <<>> THEN post
             ELSE LET tag_data == tagfetcher.result[1]
                      merged == IF tag_data.tag_type \in DOMAIN NAMESPACES
                                THEN tag_add(post, Tag(NAMESPACES[tag_data.tag_type], tag_data.name))
                                ELSE post
                  IN  Merge_abort(merged, Tail(fetchers))

RECURSIVE Merge(_, _)
Merge(post, fetchers) ==
    IF fetchers = <<>> THEN post
    ELSE LET tagfetcher == Head(fetchers)
             merged ==
                 IF tagfetcher.result = <<>> THEN post
                 ELSE LET tag_data == tagfetcher.result[1]
                      IN  IF tag_data.tag_type \in DOMAIN NAMESPACES
                          THEN tag_add(post, Tag(NAMESPACES[tag_data.tag_type], tag_data.name))
                          ELSE post
         IN  Merge(merged, Tail(fetchers))

\* The task at entry n of res: at the wait of that post's fetchers, or, past
\* the last entry, returned.
AtPost(task, n, posts) ==
    IF n > Len(task.res)
    THEN [task EXCEPT !.pc = "done", !.n = n, !.post = <<>>,
                      !.tag_fetchers = <<>>, !.posts = posts]
    ELSE LET post == NewPost(task.res[n])
         IN  [task EXCEPT !.pc = "wait", !.n = n, !.post = <<post>>,
                          !.tag_fetchers = Fetchers(post), !.posts = posts]

Terminal(tf) == tf.pc \in {"done", "raised"}

\* posts.append(post)
posts_insert_front(posts, post) == <<post>> \o posts
posts_append(posts, post) == Append(posts, post)

\* hh_req of the page raised: log, sleep.
fetch_page_error(p) ==
    /\ p \in DOMAIN tasks
    /\ tasks[p].pc = "request"
    /\ tasks' = [tasks EXCEPT ![p].pc = "sleep"]
    /\ UNCHANGED <<envVars, pc, db_tags, db_committed, tagfetch_semaphore, ctlVars, htaVars>>

\* the sleep is over: return await self.fetch_page(page)
fetch_page_retry(p) ==
    /\ p \in DOMAIN tasks
    /\ tasks[p].pc = "sleep"
    /\ tasks' = [tasks EXCEPT ![p].pc = "request"]
    /\ UNCHANGED <<envVars, pc, db_tags, db_committed, tagfetch_semaphore, ctlVars, htaVars>>

\* hh_req of the page answered: the first post and its fetchers, or, on an
\* empty page, the commit and the return of no posts.
fetch_page_response(p) ==
    /\ p \in DOMAIN tasks
    /\ tasks[p].pc = "request"
    /\ LET task == AtPost([tasks[p] EXCEPT !.res = RemotePage(p)], 1, <<>>)
       IN  /\ tasks' = [tasks EXCEPT ![p] = task]
           /\ db_committed' = IF task.pc = "done" THEN db_tags ELSE db_committed
    /\ UNCHANGED <<envVars, pc, db_tags, tagfetch_semaphore, ctlVars, htaVars>>

\* asyncio.wait of the post's fetchers is over: merge, append, commit, and go
\* on to the next entry of res (or commit again and return).
fetch_page_post_done(p) ==
    /\ p \in DOMAIN tasks
    /\ tasks[p].pc = "wait"
    /\ \A k \in DOMAIN tasks[p].tag_fetchers : Terminal(tasks[p].tag_fetchers[k])
    /\ LET task == tasks[p]
           post == Merge(task.post[1], task.tag_fetchers)
           logged == [task EXCEPT !.bad = @ \o Bad(task.post[1], task.tag_fetchers)]
       IN  tasks' = [tasks EXCEPT ![p] = AtPost(logged, task.n + 1, posts_append(task.posts, post))]
    /\ db_committed' = db_tags
    /\ UNCHANGED <<envVars, pc, db_tags, tagfetch_semaphore, ctlVars, htaVars>>

(***************************************************************************)
(* post.py: TagFetcher.fetch and TagFetcher._fetch                         *)
(***************************************************************************)
Waiting(p, k) ==
    /\ p \in DOMAIN tasks
    /\ tasks[p].pc = "wait"
    /\ k \in DOMAIN tasks[p].tag_fetchers

SetFetcher(p, k, tf) == [tasks EXCEPT ![p].tag_fetchers[k] = tf]

\* Leaving the async with block of fetch(), by the return of _fetch() or by
\* the exception it raised: the semaphore is released.
Leave_on_return(sem, raised) == IF raised THEN sem ELSE sem + 1
Leave(sem, raised) == sem + 1

\* async with self.succ.tagfetch_semaphore
fetch_acquire(p, k) ==
    /\ Waiting(p, k)
    /\ tasks[p].tag_fetchers[k].pc = "acquire"
    /\ tagfetch_semaphore > 0
    /\ tagfetch_semaphore' = tagfetch_semaphore - 1
    /\ tasks' = SetFetcher(p, k, [tasks[p].tag_fetchers[k] EXCEPT !.pc = "lookup"])
    /\ UNCHANGED <<envVars, pc, db_tags, db_committed, ctlVars, htaVars>>

\* select type from tags where tag=?: a row ends the fetch with the cached
\* type (and leaves the semaphore); no row sends the request to the tag API.
CacheHit_truthy(table, tag) == tag \in DOMAIN table /\ table[tag] # GENERAL
CacheHit(table, tag) == tag \in DOMAIN table

_fetch_lookup(p, k) ==
    /\ Waiting(p, k)
    /\ tasks[p].tag_fetchers[k].pc = "lookup"
    /\ LET tf == tasks[p].tag_fetchers[k]
       IN  IF CacheHit(db_tags, tf.tag)
           THEN /\ tasks' = SetFetcher(p, k, [tf EXCEPT !.pc = "done", !.how = "cache",
                                !.result = <<_wrap(tf.tag, db_tags[tf.tag])>>])
                /\ tagfetch_semaphore' = Leave(tagfetch_semaphore, FALSE)
           ELSE /\ tasks' = SetFetcher(p, k, [tf EXCEPT !.pc = "request"])
                /\ UNCHANGED tagfetch_semaphore
    /\ UNCHANGED <<envVars, pc, db_tags, db_committed, ctlVars, htaVars>>

\* hh_req of the tag raised: log, sleep (inside the semaphore).
_fetch_error(p, k) ==
    /\ Waiting(p, k)
    /\ tasks[p].tag_fetchers[k].pc = "request"
    /\ tasks' = SetFetcher(p, k, [tasks[p].tag_fetchers[k] EXCEPT !.pc = "sleep"])
    /\ UNCHANGED <<envVars, pc, db_tags, db_committed, tagfetch_semaphore, ctlVars, htaVars>>

\* the sleep is over: return await self._fetch(), which starts at the select.
_fetch_retry(p, k) ==
    /\ Waiting(p, k)
    /\ tasks[p].tag_fetchers[k].pc = "sleep"
    /\ tasks' = SetFetcher(p, k, [tasks[p].tag_fetchers[k] EXCEPT !.pc = "lookup"])
    /\ UNCHANGED <<envVars, pc, db_tags, db_committed, tagfetch_semaphore, ctlVars, htaVars>>

\* hh_req of the tag answered: learn every record, return the record of the
\* tag itself, else insert the tag as GENERAL and return that.  The last
\* insert is outside any try: its IntegrityError ends fetch() with the error,
\* self.result stays None.  Leaving fetch() releases the semaphore either way.
_fetch_response(p, k) ==
    /\ Waiting(p, k)
    /\ tasks[p].tag_fetchers[k].pc = "request"
    /\ \E results \in Responses :
         LET tf == tasks[p].tag_fetchers[k]
             learned == Learn(db_tags, results)
             exact == Matches(results, tf.tag)
         IN  IF exact # <<>>
             THEN /\ db_tags' = learned
                  /\ tasks' = SetFetcher(p, k, [tf EXCEPT !.pc = "done", !.how = "api",
                                  !.result = <<_wrap(exact[1].name, exact[1].tag_type)>>])
                  /\ tagfetch_semaphore' = Leave(tagfetch_semaphore, FALSE)
             ELSE IF IntegrityError(learned, tf.tag)
             THEN /\ db_tags' = learned
                  /\ tasks' = SetFetcher(p, k, [tf EXCEPT !.pc = "raised", !.how = "default"])
                  /\ tagfetch_semaphore' = Leave(tagfetch_semaphore, TRUE)
             ELSE /\ db_tags' = Insert(learned, tf.tag, GENERAL)
                  /\ tasks' = SetFetcher(p, k, [tf EXCEPT !.pc = "done", !.how = "default",
                                  !.result = <<_wrap(tf.tag, GENERAL)>>])
                  /\ tagfetch_semaphore' = Leave(tagfetch_semaphore, FALSE)
    /\ UNCHANGED <<envVars, pc, db_committed, ctlVars, htaVars>>


(***************************************************************************)
(* main.py: process_hta, and the archive it writes to                      *)
(***************************************************************************)
\* HydrusTagArchive is not part of the sources at hand: a big job collects the
\* mappings added since BeginBigJob, CommitBigJob makes them part of the archive.
NoArchive == [open |-> FALSE, job |-> <<>>, archive |-> <<>>]
NoJob == [posts |-> <<>>, n |-> 0, failed |-> FALSE]

BeginBigJob(a) == [a EXCEPT !.open = TRUE, !.job = <<>>]
AddMappings(a, hash, tags) == [a EXCEPT !.job = Append(@, [hash |-> hash, tags |-> tags])]
CommitBigJob(a) == [a EXCEPT !.open = FALSE, !.job = <<>>, !.archive = Append(@, a.job)]

\* The pages start..end as fresh fetch_page coroutines.
Spawn(start, end) == [p \in start..end |-> PageTask]

\* run_until_complete(asyncio.wait(coros)) returns when every coroutine has
\* returned (return_when=ALL_COMPLETED, no timeout): done holds them all,
\* pending none.
AnyDone == \E p \in DOMAIN tasks : tasks[p].pc = "done"
AllDone == \A p \in DOMAIN tasks : tasks[p].pc = "done"

Done == {p \in DOMAIN tasks : tasks[p].pc = "done"}
Pending == [p \in DOMAIN tasks \ Done |-> tasks[p]]

\* for post in posts: there is a post left to add
MorePosts_short(j) == j.n < Len(j.posts)
MorePosts(j) == j.n <= Len(j.posts)

\* self.hta.BeginBigJob()
process_hta_begin ==
    /\ pc = "process_hta"
    /\ hta' = BeginBigJob(hta)
    /\ job' = [job EXCEPT !.n = 1]
    /\ pc' = "AddMappings"
    /\ UNCHANGED <<envVars, tasks, db_tags, db_committed, tagfetch_semaphore, ctlVars>>

\* self.hta.AddMappings(post.bhash, post.tags), for the next post
process_hta_add ==
    /\ pc = "AddMappings"
    /\ MorePosts(job)
    /\ hta' = AddMappings(hta, bhash(job.posts[job.n]), job.posts[job.n].tags)
    /\ job' = [job EXCEPT !.n = @ + 1]
    /\ UNCHANGED <<envVars, pc, tasks, db_tags, db_committed, tagfetch_semaphore, ctlVars>>

\* self.hta.AddMappings raised: nothing in process_hta or in the commands
\* catches it, so it ends the command (process_line logs it); CommitBigJob is
\* not called and the posts left are not added.
process_hta_add_swallowed ==
    /\ pc = "AddMappings"
    /\ MorePosts(job)
    /\ job' = [job EXCEPT !.failed = TRUE, !.n = @ + 1]
    /\ UNCHANGED <<envVars, pc, hta, tasks, db_tags, db_committed, tagfetch_semaphore, ctlVars>>

process_hta_add_raised ==
    /\ pc = "AddMappings"
    /\ MorePosts(job)
    /\ job' = [job EXCEPT !.failed = TRUE]
    /\ pc' = "raised"
    /\ UNCHANGED <<envVars, hta, tasks, db_tags, db_committed, tagfetch_semaphore, ctlVars>>

\* self.hta.CommitBigJob(), and the return to the command: c_fetch_all goes on
\* to its next window, the other commands are over.
NextWindow_overlap(from) == from + page_continue
NextWindow(from) == from + page_continue + 1

process_hta_commit ==
    /\ pc = "AddMappings"
    /\ ~MorePosts(job)
    /\ hta' = CommitBigJob(hta)
    /\ job' = NoJob
    /\ IF command = "loop"
       THEN /\ i' = NextWindow(i)
            /\ tasks' = Spawn(i', i' + page_continue)
            /\ pc' = "run"
       ELSE /\ pc' = "done"
            /\ UNCHANGED <<i, tasks>>
    /\ UNCHANGED <<envVars, db_tags, db_committed, tagfetch_semaphore, page, final_posts, cycles>>

(***************************************************************************)
(* main.py: c_fetch_latest and c_fetch_pages                               *)
(***************************************************************************)
\* The orders in which a set can be run through.
Orders(S) ==
    {o \in [1..Cardinality(S) -> S] : \A x, y \in DOMAIN o : x # y => o[x] # o[y]}

\* fetch_pages: posts.extend(pagetask.result()) for the tasks of done, a set.
RECURSIVE Extend(_)
Extend(order) ==
    IF order = <<>> THEN <<>>
    ELSE tasks[Head(order)].posts \o Extend(Tail(order))

c_fetch_latest ==
    /\ pc = "start"
    /\ command = "fetch_latest"
    /\ tasks' = Spawn(0, 0)
    /\ pc' = "run"
    /\ UNCHANGED <<envVars, db_tags, db_committed, tagfetch_semaphore, ctlVars, htaVars>>

c_fetch_latest_done ==
    /\ pc = "run"
    /\ command = "fetch_latest"
    /\ AllDone
    /\ job' = [posts |-> tasks[0].posts, n |-> 0, failed |-> FALSE]
    /\ tasks' = NoTasks
    /\ pc' = "process_hta"
    /\ UNCHANGED <<envVars, db_tags, db_committed, tagfetch_semaphore, ctlVars, hta>>

c_fetch_pages ==
    /\ pc = "start"
    /\ command = "fetch_pages"
    /\ tasks' = Spawn(args[1], args[2])
    /\ pc' = "run"
    /\ UNCHANGED <<envVars, db_tags, db_committed, tagfetch_semaphore, ctlVars, htaVars>>

c_fetch_pages_done ==
    /\ pc = "run"
    /\ command = "fetch_pages"
    /\ AllDone
    /\ \E order \in Orders(Done) : job' = [posts |-> Extend(order), n |-> 0, failed |-> FALSE]
    /\ tasks' = Pending
    /\ pc' = "process_hta"
    /\ UNCHANGED <<envVars, db_tags, db_committed, tagfetch_semaphore, ctlVars, hta>>

(***************************************************************************)
(* main.py: c_fetch_until                                                  *)
(***************************************************************************)
until_id == args[1]
Wanted_newer(posts) == SelectSeq(posts, LAMBDA post : post.id > until_id)
Wanted(posts) == SelectSeq(posts, LAMBDA post : post.id >= until_id)
Unwanted(posts) == SelectSeq(posts, LAMBDA post : post.id < until_id)

c_fetch_until ==
    /\ pc = "start"
    /\ command = "fetch_until"
    /\ page' = 0
    /\ final_posts' = <<>>
    /\ tasks' = Spawn(0, 0)
    /\ pc' = "run"
    /\ UNCHANGED <<envVars, db_tags, db_committed, tagfetch_semaphore, i, cycles, htaVars>>

\* One turn of the loop, from the return of fetch_page(page): a page with an
\* unwanted post is the last one, and final_posts[0] of no posts is an
\* IndexError that ends the command before process_hta.
LastPage(posts) == Unwanted(posts) # <<>>

c_fetch_until_page ==
    /\ pc = "run"
    /\ command = "fetch_until"
    /\ AllDone
    /\ LET posts == tasks[page].posts
           final == final_posts \o Wanted(posts)
       IN  /\ final_posts' = final
           /\ IF LastPage(posts)
              THEN /\ tasks' = NoTasks
                   /\ page' = page
                   /\ IF final = <<>>
                      THEN pc' = "error" /\ job' = job
                      ELSE pc' = "process_hta" /\ job' = [posts |-> final, n |-> 0, failed |-> FALSE]
              ELSE /\ page < MaxPage
                   /\ page' = page + 1
                   /\ tasks' = Spawn(page + 1, page + 1)
                   /\ pc' = "run"
                   /\ job' = job
    /\ UNCHANGED <<envVars, db_tags, db_committed, tagfetch_semaphore, i, cycles, hta>>

(***************************************************************************)
(* main.py: c_loop and c_fetch_all                                         *)
(***************************************************************************)
\* c_loop enters c_fetch_all: i = 0 and the first window of pages.
c_loop ==
    /\ pc = "start"
    /\ command = "loop"
    /\ cycles' = 1
    /\ i' = 0
    /\ tasks' = Spawn(0, page_continue)
    /\ pc' = "run"
    /\ UNCHANGED <<envVars, db_tags, db_committed, tagfetch_semaphore, page, final_posts, htaVars>>

\* fetch_pages(i, i + page_continue) returned: no data ends c_fetch_all (c_loop
\* then sleeps), data goes to process_hta.
EndOfCrawl(data) == data = <<>>

c_fetch_all_window ==
    /\ pc = "run"
    /\ command = "loop"
    /\ AllDone
    /\ \E order \in Orders(Done) :
         LET data == Extend(order)
         IN  IF EndOfCrawl(data)
             THEN pc' = "waiting" /\ job' = job
             ELSE pc' = "process_hta" /\ job' = [posts |-> data, n |-> 0, failed |-> FALSE]
    /\ tasks' = Pending
    /\ UNCHANGED <<envVars, db_tags, db_committed, tagfetch_semaphore, ctlVars, hta>>

\* time.sleep(300) is over: c_loop calls c_fetch_all again.
c_loop_again ==
    /\ pc = "waiting"
    /\ cycles < MaxCycles
    /\ cycles' = cycles + 1
    /\ i' = 0
    /\ tasks' = Spawn(0, page_continue)
    /\ pc' = "run"
    /\ UNCHANGED <<envVars, db_tags, db_committed, tagfetch_semaphore, page, final_posts, htaVars>>

(***************************************************************************)
(* Specifications                                                          *)
(***************************************************************************)
EmptyTable == [x \in {} |-> GENERAL]

\* SuccMain.__init__ and init(): a fresh tags table, the semaphore, the archive.
Started(cat, cmd, a) ==
    /\ catalog = cat
    /\ command = cmd
    /\ args = a
    /\ pc = "start"
    /\ tasks = NoTasks
    /\ db_tags = EmptyTable
    /\ db_committed = EmptyTable
    /\ tagfetch_semaphore = SemaphoreValue
    /\ page = 0
    /\ final_posts = <<>>
    /\ i = 0
    /\ job = NoJob
    /\ hta = NoArchive
    /\ cycles = 0

PageNext ==
    \E p \in DOMAIN tasks :
        \/ fetch_page_error(p)
        \/ fetch_page_retry(p)
        \/ fetch_page_response(p)
        \/ fetch_page_post_done(p)

FetcherNext ==
    \E p \in DOMAIN tasks : \E k \in DOMAIN tasks[p].tag_fetchers :
        \/ fetch_acquire(p, k)
        \/ _fetch_lookup(p, k)
        \/ _fetch_error(p, k)
        \/ _fetch_retry(p, k)
        \/ _fetch_response(p, k)

HtaNext ==
    \/ process_hta_begin
    \/ process_hta_add
    \/ process_hta_add_raised
    \/ process_hta_commit

\* fetch latest / fetch pages 0 1, of posts with one or two tags.
TagLists == {<<"a">>, <<"a", "a">>, <<"a", "b">>}

Init ==
    \E cat \in Catalogs(Dense(MaxPosts, PageLimit), TagLists) :
        \/ Started(cat, "fetch_latest", <<>>)
        \/ Started(cat, "fetch_pages", <<0, 1>>)

Next ==
    \/ c_fetch_latest
    \/ c_fetch_latest_done
    \/ c_fetch_pages
    \/ c_fetch_pages_done
    \/ PageNext
    \/ FetcherNext
    \/ HtaNext

Spec == Init /\ [][Next]_vars


\* fetch until <id>, of posts with one tag.
InitUntil ==
    \E cat \in Catalogs(Dense(MaxUntilPosts, PageLimit), {<<"a">>}) :
        \E id \in 0..(MaxUntilPosts + 1) : Started(cat, "fetch_until", <<id>>)

NextUntil ==
    \/ c_fetch_until
    \/ c_fetch_until_page
    \/ PageNext
    \/ FetcherNext
    \/ HtaNext

SpecUntil == InitUntil /\ [][NextUntil]_vars

\* loop, of posts with one tag.
InitLoop ==
    \E cat \in Catalogs(Sparse(MaxLoopPages, MaxLoopPosts), {<<"a">>}) : Started(cat, "loop", <<>>)

NextLoop ==
    \/ c_loop
    \/ c_fetch_all_window
    \/ c_loop_again
    \/ PageNext
    \/ FetcherNext
    \/ HtaNext

SpecLoop == InitLoop /\ [][NextLoop]_vars

\* fetch latest of a page of at most MaxRetryPosts posts, with the scheduling
\* of the event loop: a coroutine that can go on does go on, a retry sleep
\* ends, and a request that is made again and again is answered in the end
\* (the remote does not fail for ever).
InitRetry ==
    \E cat \in Catalogs(Dense(MaxRetryPosts, MaxRetryPosts), TagLists) :
        Started(cat, "fetch_latest", <<>>)

NextRetry ==
    \/ c_fetch_latest
    \/ c_fetch_latest_done
    \/ PageNext
    \/ FetcherNext
    \/ HtaNext

FairRetry ==
    /\ WF_vars(fetch_page_retry(0))
    /\ SF_vars(fetch_page_response(0))
    /\ WF_vars(fetch_page_post_done(0))
    /\ \A k \in 1..2 :
          /\ WF_vars(fetch_acquire(0, k))
          /\ WF_vars(_fetch_lookup(0, k))
          /\ WF_vars(_fetch_retry(0, k))
          /\ SF_vars(_fetch_response(0, k))

SpecRetry == InitRetry /\ [][NextRetry]_vars /\ FairRetry


(***************************************************************************)
(* The claims                                                              *)
(***************************************************************************)
\* Every TagFetcher of the running pages, as <<page, place in tag_fetchers>>.
AllFetchers ==
    UNION {{<<p, k>> : k \in DOMAIN tasks[p].tag_fetchers} : p \in DOMAIN tasks}

FetcherAt(f) == tasks[f[1]].tag_fetchers[f[2]]

InsideLimiter == {f \in AllFetchers : FetcherAt(f).pc \in {"lookup", "request", "sleep"}}
InFlight == {f \in AllFetchers : FetcherAt(f).pc = "request"}

\* C1: over all posts and all pages fetched at the same time, at most 3
\* fetchers are inside the semaphore (at the select, at the request or in the
\* retry sleep), so at most 3 requests to the tag API are in flight.
C1_BoundedConcurrency ==
    /\ Cardinality(InsideLimiter) <= 3
    /\ Cardinality(InFlight) <= 3

\* Three requests in flight while a fourth fetcher waits for the semaphore.
C1_Witness ==
    /\ Cardinality(InFlight) = 3
    /\ \E f \in AllFetchers : FetcherAt(f).pc = "acquire"

\* C2: a row of the tags table, once there, stays as it is in every later
\* state: an insert of the same tag with another type changes nothing.
C2_FirstWriterWins ==
    [][\A tag \in DOMAIN db_tags :
          tag \in DOMAIN db_tags' /\ db_tags'[tag] = db_tags[tag]]_vars

\* A fetcher came back with the type the API gave for its tag, while the row
\* of that tag, written first by another insert, holds another type.
C2_Witness ==
    \E f \in AllFetchers :
        /\ FetcherAt(f).how = "api"
        /\ FetcherAt(f).result[1].name \in DOMAIN db_tags
        /\ db_tags[FetcherAt(f).result[1].name] # FetcherAt(f).result[1].tag_type

\* C3: fetchers racing to insert the same tag never fault: each of them ends
\* with a result, none with an error.
C3_RacingResolversNeverFault ==
    \A f \in AllFetchers : FetcherAt(f).pc # "raised"

\* C4: the fetchers of one post are for distinct tags: a tag that is several
\* times among the raw tags of the post is resolved once.
C4_Deduplicated ==
    \A p \in DOMAIN tasks : \A j, k \in DOMAIN tasks[p].tag_fetchers :
        j # k => tasks[p].tag_fetchers[j].tag # tasks[p].tag_fetchers[k].tag

\* C5: a fetcher that found its tag neither in the table nor, by its exact
\* name, in the answer of the API ends with the type GENERAL, and the table
\* then holds the tag as GENERAL.
C5_FallbackCompleteness ==
    \A f \in AllFetchers :
        FetcherAt(f).how = "default" =>
            /\ FetcherAt(f).pc = "done"
            /\ FetcherAt(f).result = <<_wrap(FetcherAt(f).tag, GENERAL)>>
            /\ FetcherAt(f).tag \in DOMAIN db_tags
            /\ db_tags[FetcherAt(f).tag] = GENERAL

\* C6: a fetcher that comes to the select while the table holds a row for its
\* tag ends in that step with the type of the row, without a request to the
\* API and without a change of the table; and every result taken from the
\* table is the row of its tag, so two such results for a tag are the same.
C6_WarmCacheDeterminism ==
    [][/\ \A p \in DOMAIN tasks : \A k \in DOMAIN tasks[p].tag_fetchers :
            LET tf == tasks[p].tag_fetchers[k]
            IN  (/\ tf.pc = "lookup"
                 /\ tf.tag \in DOMAIN db_tags
                 /\ p \in DOMAIN tasks'
                 /\ k \in DOMAIN tasks'[p].tag_fetchers
                 /\ tasks'[p].tag_fetchers[k] # tf)
                => /\ tasks'[p].tag_fetchers[k] =
                        [tf EXCEPT !.pc = "done", !.how = "cache",
                                   !.result = <<_wrap(tf.tag, db_tags[tf.tag])>>]
                   /\ db_tags' = db_tags
       /\ \A p \in DOMAIN tasks' : \A k \in DOMAIN tasks'[p].tag_fetchers :
            LET tf == tasks'[p].tag_fetchers[k]
            IN  tf.how = "cache" =>
                    /\ tf.pc = "done"
                    /\ tf.tag \in DOMAIN db_tags'
                    /\ tf.result = <<_wrap(tf.tag, db_tags'[tf.tag])>>]_vars

\* Two fetchers of one tag both took their result from the table.
C6_Witness ==
    \E f, g \in AllFetchers :
        /\ f # g
        /\ FetcherAt(f).tag = FetcherAt(g).tag
        /\ FetcherAt(f).how = "cache"
        /\ FetcherAt(g).how = "cache"
        /\ FetcherAt(f).result = FetcherAt(g).result


\* The posts of the catalog in its order, and those of one page by their ids.
RECURSIVE Flatten(_)
Flatten(pages) == IF pages = <<>> THEN <<>> ELSE Head(pages) \o Flatten(Tail(pages))

IdsOf(posts) == [k \in 1..Len(posts) |-> posts[k].id]
HashesOf(mappings) == [k \in 1..Len(mappings) |-> mappings[k].hash]
HashOfId(id) == HexDecode(Md5Of(id))

\* The ids the crawl is to keep, in the order of the catalog, and the pages
\* that hold an older id.
TargetOnSomePage == \E k \in 1..Len(Flatten(catalog)) : Flatten(catalog)[k].id = until_id
WantedIds == SelectSeq(IdsOf(Flatten(catalog)), LAMBDA id : id >= until_id)
HasOlder(q) == \E k \in 1..Len(RemotePage(q)) : RemotePage(q)[k].id < until_id
UntilStopped == pc \in {"process_hta", "AddMappings", "done", "error"}

\* C7: with a target id that is on some page of a catalog of descending ids,
\* fetch until fetches one page at a time from page 0 on, none after a page
\* with an id below the target; it stops at the first page with such an id,
\* and the batch it writes is the posts with id >= target, in catalog order.
C7_UntilIdBoundary ==
    (command = "fetch_until" /\ pc # "start" /\ TargetOnSomePage) =>
        /\ \A q \in 0..(page - 1) : ~HasOlder(q)
        /\ pc = "run" => DOMAIN tasks = {page}
        /\ UntilStopped =>
              /\ HasOlder(page)
              /\ pc # "error"
              /\ IdsOf(final_posts) = WantedIds
        /\ pc \in {"process_hta", "AddMappings"} =>
              /\ IdsOf(job.posts) = WantedIds
              /\ hta.archive = <<>>
              /\ HashesOf(hta.job) = [k \in 1..Len(hta.job) |-> HashOfId(WantedIds[k])]
        /\ pc = "done" =>
              /\ Len(hta.archive) = 1
              /\ HashesOf(hta.archive[1]) = [k \in 1..Len(WantedIds) |-> HashOfId(WantedIds[k])]

\* The crawl went over a whole page, stopped in the middle of the next one,
\* wrote its batch, and left a later page of the catalog alone.
C7_Witness ==
    /\ command = "fetch_until"
    /\ TargetOnSomePage
    /\ pc = "done"
    /\ page = 1
    /\ Len(catalog) > 2
    /\ \E k \in 1..Len(RemotePage(1)) : RemotePage(1)[k].id >= until_id
    /\ Len(hta.archive[1]) = Len(WantedIds)

\* C8: when no post of the catalog is older than the target, fetch until ends
\* at the empty page: no page is fetched after a page that came back empty.
C8_UntilStopsAtEmptyPage ==
    (command = "fetch_until" /\ pc = "run" /\ \A q \in 0..MaxPage : ~HasOlder(q)) =>
        \A q \in 0..(page - 1) : RemotePage(q) # <<>>

\* C9: when fetch until leaves its loop it goes on to process_hta with the
\* posts it kept, also when it kept none, and ends with one batch written.
C9_UntilWritesOneBatch ==
    (command = "fetch_until" /\ UntilStopped) =>
        \/ pc \in {"process_hta", "AddMappings"} /\ job.posts = final_posts
        \/ pc = "done" /\ Len(hta.archive) = 1


\* The windows of c_fetch_all: window w is the pages 4w .. 4w+3.
WindowPages(w) == (4 * w)..(4 * w + 3)
WindowIds(w) == UNION {{RemotePage(q)[k].id : k \in 1..Len(RemotePage(q))} : q \in WindowPages(w)}
WindowCount(w) == Sum([q \in 1..4 |-> Len(RemotePage(4 * w + q - 1))])
FirstEmptyWindow == CHOOSE w \in 0..Len(catalog) :
                        /\ WindowCount(w) = 0
                        /\ \A v \in 0..(w - 1) : WindowCount(v) > 0

\* C10: a cycle of the full crawl fetches the windows of 4 pages from page 0
\* on, one after the other; it writes one batch for each window that has
\* posts, holding the posts of that window, and ends at the first window
\* without posts, for which it writes no batch.
C10_EmptyPageTermination ==
    (command = "loop" /\ pc # "start") =>
        /\ i % 4 = 0
        /\ i \div 4 <= FirstEmptyWindow
        /\ pc = "run" => DOMAIN tasks = WindowPages(i \div 4)
        /\ Len(hta.archive) = (cycles - 1) * FirstEmptyWindow + i \div 4
        /\ \A b \in 1..Len(hta.archive) :
              LET w == (b - 1) % FirstEmptyWindow
              IN  /\ Len(hta.archive[b]) = WindowCount(w)
                  /\ {hta.archive[b][k].hash : k \in 1..Len(hta.archive[b])}
                        = {HashOfId(id) : id \in WindowIds(w)}
        /\ pc \in {"process_hta", "AddMappings"} =>
              /\ i \div 4 < FirstEmptyWindow
              /\ Len(job.posts) = WindowCount(i \div 4)
              /\ {job.posts[k].id : k \in 1..Len(job.posts)} = WindowIds(i \div 4)
        /\ pc = "waiting" => i \div 4 = FirstEmptyWindow

\* A cycle ended at its third window, after a batch for each of two windows.
C10_Witness ==
    /\ command = "loop"
    /\ pc = "waiting"
    /\ i = 8
    /\ cycles = 1
    /\ Len(hta.archive) = 2


\* C11: the posts a page task has collected are the entries of the remote
\* page in the order of the response, each once: all of them when the task
\* has returned, the entries before the one at hand while it waits for
\* fetchers, whatever the order in which the fetchers ended or retried.
C11_OrderPreservation ==
    \A p \in DOMAIN tasks :
        LET task == tasks[p]
            sent == RemotePage(p)
        IN  /\ task.pc = "done" =>
                /\ IdsOf(task.posts) = IdsOf(sent)
                /\ \A k \in 1..Len(sent) : task.posts[k].raw_tags = sent[k].tags
            /\ task.pc = "wait" =>
                /\ IdsOf(task.posts) = SubSeq(IdsOf(sent), 1, task.n - 1)
                /\ task.post[1].id = sent[task.n].id

\* A page of two posts came back whole, one of its fetchers having failed.
C11_Witness ==
    \E p \in DOMAIN tasks :
        /\ tasks[p].pc = "done"
        /\ Len(tasks[p].posts) = 2
        /\ tasks[p].posts[1].id # tasks[p].posts[2].id
        /\ tasks[p].bad # <<>>

\* The mapping process_hta adds for a post.
Mapping(post) == [hash |-> bhash(post), tags |-> post.tags]
Mappings(posts) == [k \in 1..Len(posts) |-> Mapping(posts[k])]

\* C12: the archive changes only by BeginBigJob on a closed archive, by the
\* AddMappings of the next post of the batch on an open one, or by
\* CommitBigJob on an open one that holds the mapping of every post of the
\* batch, in order; the posts of a batch are not replaced while the archive
\* stays open.
C12_SinkProtocolOrder ==
    [][/\ hta' # hta =>
            \/ /\ ~hta.open /\ hta'.open
               /\ pc = "process_hta"
               /\ hta'.job = <<>>
               /\ hta'.archive = hta.archive
            \/ /\ hta.open /\ hta'.open
               /\ Len(hta.job) < Len(job.posts)
               /\ hta'.job = Append(hta.job, Mapping(job.posts[Len(hta.job) + 1]))
               /\ hta'.archive = hta.archive
            \/ /\ hta.open /\ ~hta'.open
               /\ hta.job = Mappings(job.posts)
               /\ hta'.archive = Append(hta.archive, hta.job)
       /\ job'.posts # job.posts => ~hta'.open]_vars

\* A batch of two posts is in the archive, and the archive is closed.
C12_Witness ==
    /\ ~hta.open
    /\ Len(hta.archive) = 1
    /\ Len(hta.archive[1]) = 2
    /\ hta.archive[1][1].hash # hta.archive[1][2].hash

\* C13: from the failure of an AddMappings on, the archive is left as it is
\* (no further AddMappings, no CommitBigJob) and the batch is not taken up
\* again; the batches committed before are never changed or removed.
C13_NoPartialCommit ==
    [][/\ job.failed => hta' = hta /\ job' = job
       /\ job'.failed => hta' = hta
       /\ Len(hta'.archive) >= Len(hta.archive)
       /\ SubSeq(hta'.archive, 1, Len(hta.archive)) = hta.archive]_vars

\* The second AddMappings of a later window failed after a window was committed.
C13_Witness ==
    /\ job.failed
    /\ pc = "raised"
    /\ Len(hta.archive) >= 1
    /\ Len(hta.job) = 1
    /\ Len(job.posts) = 2

\* C14: while process_hta is to run or runs (and while the archive is open),
\* no page task and no fetcher is left unfinished.
C14_GatherBeforeWrite ==
    (hta.open \/ pc \in {"process_hta", "AddMappings"}) =>
        /\ \A p \in DOMAIN tasks : tasks[p].pc = "done"
        /\ \A f \in AllFetchers : Terminal(FetcherAt(f))

\* The archive is open for a batch that holds the posts of two pages.
C14_Witness ==
    /\ command = "fetch_pages"
    /\ hta.open
    /\ Len(job.posts) = 2
    /\ Len(RemotePage(0)) = 1
    /\ Len(RemotePage(1)) = 1

\* C15: the rows of the tags table are all committed: every insert is made in
\* the step that ends its _fetch(), so a row in the table belongs to a fetch()
\* that is over.
C15_Durability ==
    /\ DOMAIN db_tags = DOMAIN db_committed
    /\ \A t \in DOMAIN db_tags : db_committed[t] = db_tags[t]

\* C16: the free permits are the 3 of the semaphore less the fetchers between
\* the acquire and the end of their _fetch(); a fetcher that has not acquired
\* is not past the select, and one that returned or raised holds none.
C16_NoPermitLeak ==
    /\ tagfetch_semaphore = 3 - Cardinality(InsideLimiter)
    /\ tagfetch_semaphore >= 0
    /\ InsideLimiter = {} => tagfetch_semaphore = 3

\* A fetcher raised, its sibling ended at the select with the cached row, and
\* all permits are back.
C16_Witness ==
    /\ InsideLimiter = {}
    /\ tagfetch_semaphore = 3
    /\ \E f, g \in AllFetchers :
          /\ FetcherAt(f).pc = "raised"
          /\ FetcherAt(g).pc = "done"
          /\ FetcherAt(g).how = "cache"


\* The fetcher k of the post at hand of page 0, and where it stands.
FetcherIs(k, pcs) ==
    /\ 0 \in DOMAIN tasks
    /\ k \in DOMAIN tasks[0].tag_fetchers
    /\ tasks[0].tag_fetchers[k].pc \in pcs

PageIs(pcs) == 0 \in DOMAIN tasks /\ tasks[0].pc \in pcs

\* A failed request is followed by the sleep and the sleep by the call itself
\* again, for the page and for the tag; the page task never ends in an error,
\* and a fetcher only by the IntegrityError of its insert.
RetryNotSurfaced ==
    [][/\ PageIs({"sleep"}) => PageIs({"sleep", "request"})'
       /\ PageIs({"request"}) => PageIs({"request", "sleep", "wait", "done"})'
       /\ \A k \in 1..2 :
             /\ FetcherIs(k, {"sleep"}) => FetcherIs(k, {"sleep", "lookup"})'
             /\ FetcherIs(k, {"request"}) =>
                    FetcherIs(k, {"request", "sleep", "done", "raised"})'
             /\ FetcherIs(k, {"raised"})' /\ ~FetcherIs(k, {"raised"}) =>
                    /\ FetcherIs(k, {"request"})
                    /\ tasks[0].tag_fetchers[k].tag \in DOMAIN db_tags']_vars

\* The request of the page, whatever its failures, is answered in the end and
\* fetch_page goes on with the page that was sent.
PageRequestReturns ==
    PageIs({"request", "sleep"}) ~> (PageIs({"wait", "done"}) /\ tasks[0].res = RemotePage(0))

\* The call of a fetcher, whatever the failures of its request, ends.
TagRequestEnds ==
    \A k \in 1..2 : FetcherIs(k, {"request", "sleep"}) ~> FetcherIs(k, {"done", "raised"})

\* C17: a fetcher whose request failed, or is under way, ends with a result
\* in the end, when the remote does not fail for ever.
C17_TagRequestReturns ==
    \A k \in 1..2 : FetcherIs(k, {"request", "sleep"}) ~> FetcherIs(k, {"done"})


\* The tags the fetchers of a post stand for: f'{namespace}{name}' of every
\* fetcher that has a result of a type with a namespace, in their order.
HasNamespace(tf) == tf.result # <<>> /\ tf.result[1].tag_type \in DOMAIN NAMESPACES
Namespaced(fetchers) ==
    LET named == SelectSeq(fetchers, HasNamespace)
    IN  [k \in 1..Len(named) |->
            Tag(NAMESPACES[named[k].result[1].tag_type], named[k].result[1].name)]

\* The tags of an entry of the remote page as they stand before any fetcher
\* has ended: the raw tags, then the four tags the API does not give.
Synthesized(rawpost) ==
    <<Tag("", "hypnosis"), Tag("booru:", "hypnohub"),
      Tag("md5:", rawpost.md5), Tag("id:", ToString(rawpost.id))>>
RawTags(rawpost) == [k \in 1..Len(rawpost.tags) |-> Tag("", rawpost.tags[k])]

Failed(p) == {k \in DOMAIN tasks[p].tag_fetchers : tasks[p].tag_fetchers[k].pc = "raised"}

\* C18: while a fetcher of a post has failed, the page task stays at that post
\* with every fetcher in place until all of them have ended; then the post is
\* appended with the namespaced tag of every fetcher that has a result, in
\* order, after the tags it had, and the task goes on to the next entry or
\* returns.
C18_LabelFailureNonFatal ==
    [][\A p \in DOMAIN tasks :
          (tasks[p].pc = "wait" /\ Failed(p) # {}) =>
              /\ p \in DOMAIN tasks'
              /\ \/ /\ tasks'[p].pc = "wait"
                    /\ tasks'[p].n = tasks[p].n
                    /\ tasks'[p].posts = tasks[p].posts
                    /\ tasks'[p].post = tasks[p].post
                    /\ DOMAIN tasks'[p].tag_fetchers = DOMAIN tasks[p].tag_fetchers
                    /\ Failed(p) \subseteq Failed(p)'
                 \/ /\ \A k \in DOMAIN tasks[p].tag_fetchers : Terminal(tasks[p].tag_fetchers[k])
                    /\ tasks'[p].pc \in {"wait", "done"}
                    /\ tasks'[p].n = tasks[p].n + 1
                    /\ Len(tasks'[p].posts) = Len(tasks[p].posts) + 1
                    /\ SubSeq(tasks'[p].posts, 1, Len(tasks[p].posts)) = tasks[p].posts
                    /\ LET out == tasks'[p].posts[Len(tasks'[p].posts)]
                       IN  /\ out.id = tasks[p].post[1].id
                           /\ out.tags = tasks[p].post[1].tags \o Namespaced(tasks[p].tag_fetchers)]_vars

\* A post is out with creator:b of its second tag, its first tag reported bad.
C18_Witness ==
    \E p \in DOMAIN tasks : \E m \in 1..Len(tasks[p].posts) :
        /\ \E b \in 1..Len(tasks[p].bad) : tasks[p].bad[b].id = tasks[p].posts[m].id
        /\ Tag("creator:", "b") = tasks[p].posts[m].tags[Len(tasks[p].posts[m].tags)]
        /\ tasks[p].posts[m].raw_tags = <<"a", "b">>

\* C19: a post at the wait has its raw tags and then the four added tags, and
\* one fetcher for each raw tag, in order, and for nothing else; the post that
\* is appended has these tags followed by the namespaced tags of its fetchers,
\* one for each fetcher that has a result of a type with a namespace.
C19_LabelShape ==
    /\ [](\A p \in DOMAIN tasks : tasks[p].pc = "wait" =>
            LET rawpost == RemotePage(p)[tasks[p].n]
                post == tasks[p].post[1]
            IN  /\ post.tags = RawTags(rawpost) \o Synthesized(rawpost)
                /\ Len(tasks[p].tag_fetchers) = Len(rawpost.tags)
                /\ \A k \in 1..Len(rawpost.tags) : tasks[p].tag_fetchers[k].tag = rawpost.tags[k])
    /\ [][\A p \in DOMAIN tasks :
            (/\ tasks[p].pc = "wait"
             /\ p \in DOMAIN tasks'
             /\ tasks'[p].n # tasks[p].n) =>
                LET rawpost == RemotePage(p)[tasks[p].n]
                    out == tasks'[p].posts[Len(tasks'[p].posts)]
                IN  /\ Len(tasks'[p].posts) = tasks[p].n
                    /\ out.tags = RawTags(rawpost) \o Synthesized(rawpost)
                                    \o Namespaced(tasks[p].tag_fetchers)]_vars

\* A post tagged 'a b' is out with creator:a and no tag for b, of type general.
C19_Witness ==
    \E p \in DOMAIN tasks : \E m \in 1..Len(tasks[p].posts) :
        LET out == tasks[p].posts[m]
        IN  /\ out.raw_tags = <<"a", "b">>
            /\ out.tags = RawTags(RemotePage(p)[m]) \o Synthesized(RemotePage(p)[m])
                            \o <<Tag("creator:", "a")>>
            /\ "b" \in DOMAIN db_tags
            /\ db_tags["b"] = GENERAL
            /\ tasks[p].bad = <<>>

\* C20: the type a fetcher has returned is the type of the row of its tag.
C20_ResultAgreesWithCache ==
    \A f \in AllFetchers :
        FetcherAt(f).pc = "done" =>
            /\ FetcherAt(f).tag \in DOMAIN db_tags
            /\ db_tags[FetcherAt(f).tag] = FetcherAt(f).result[1].tag_type

====
